---- MODULE Spec2Model ----
(***************************************************************************)
(* Model of the ActivityPub learning scripts: WebFinger discovery          *)
(* (01-webfinger-discovery.js), actor profiles (unnamed/part_000) and the  *)
(* public timeline (unnamed/part_001).                                     *)
(*                                                                         *)
(* The scripts are single-threaded async functions.  An action of the      *)
(* model is the code that runs between two awaits: a function body up to   *)
(* the axios.get it awaits, and the continuation that runs when the        *)
(* response arrives (or the request fails).  The remote servers are the    *)
(* environment: every response is drawn from a bounded set of documents.   *)
(***************************************************************************)
EXTENDS Integers, Sequences, FiniteSets, TLC

\* ------------------------------------------------------------------ bounds

MaxHandleLen == 5   \* longest handle, in characters
MaxLinks     == 2   \* most links of a WebFinger document
MaxItems     == 2   \* most items of a batch loop
MaxPageLen   == 3   \* most activities of an outbox page
MaxLimit     == 4   \* largest limit given to fetchActorOutbox directly
MaxPosts     == 2   \* most posts of a timeline response
MaxStart     == 2   \* latest time (ms) the notification simulation starts at
MaxMedia     == 2   \* most media attachments of a post

\* ------------------------------------------------------- values and documents

\* JavaScript's undefined, for a string-valued field.
Undefined == "undefined"

\* An optional list-valued field: <<>> when the field is missing, <<v>> when it
\* holds the list v.
Missing == <<>>
Some(v) == <<v>>

Chars == {"a", "b", "@"}

RECURSIVE SeqsUpTo(_, _)
SeqsUpTo(S, n) ==
    IF n = 0 THEN {<<>>}
    ELSE LET shorter == SeqsUpTo(S, n - 1)
         IN  shorter \cup {Append(s, x) : s \in {t \in shorter : Len(t) = n - 1}, x \in S}

Handles == SeqsUpTo(Chars, MaxHandleLen)

ActivityJson == "application/activity+json"
LdJson       == "application/ld+json"
LinkTypes    == {ActivityJson, LdJson, "text/html"}
Hrefs        == {"https://h/users/1", "https://h/users/2", Undefined}
Links        == [type : LinkTypes, href : Hrefs]

\* A WebFinger document (JRD): its links field may be missing.
WebFingerDocs == [links : {Missing} \cup {Some(l) : l \in SeqsUpTo(Links, MaxLinks)}]

\* ------------------------------------------------------------ pure helpers

\* String.prototype.split('@'): the parts between the separators.
RECURSIVE Split(_)
Split(s) ==
    IF \A i \in 1..Len(s) : s[i] # "@"
    THEN <<s>>
    ELSE LET i == CHOOSE k \in 1..Len(s) : s[k] = "@" /\ \A j \in 1..(k - 1) : s[j] # "@"
         IN  <<SubSeq(s, 1, i - 1)>> \o Split(SubSeq(s, i + 1, Len(s)))

\* const [username, domain] = handle.split('@'): the first two parts; domain is
\* undefined (here: not HasDomain) when there is one part only.
Username(h)  == Split(h)[1]
HasDomain(h) == Len(Split(h)) >= 2
Domain(h)    == Split(h)[2]

\* Mutant: the check forgets the empty domain.
MInvalidHandle(h) == Username(h) = <<>> \/ ~HasDomain(h)

\* if (!username || !domain): the empty string and undefined are falsy.
InvalidHandle(h) == Username(h) = <<>> \/ ~HasDomain(h) \/ Domain(h) = <<>>

\* Mutant: the host is taken from the username.
MWebFingerUrl(h) ==
    <<"https://">> \o Username(h) \o <<"/.well-known/webfinger?resource=acct:">> \o h

\* `https://${domain}/.well-known/webfinger?resource=acct:${handle}`
WebFingerUrl(h) ==
    <<"https://">> \o Domain(h) \o <<"/.well-known/webfinger?resource=acct:">> \o h

\* Mutant: application/ld+json counts as an actor link too.
MIsActorLink(link) == link.type \in {ActivityJson, LdJson}

\* links?.find(link => link.type === 'application/activity+json')?.href
IsActorLink(link) == link.type = ActivityJson

\* Mutant: the first matching link that has an href wins.
MActorUrlOfWithHref(doc) ==
    IF doc.links = Missing THEN Undefined
    ELSE LET links == doc.links[1]
             hits  == {i \in 1..Len(links) :
                          IsActorLink(links[i]) /\ links[i].href # Undefined}
         IN  IF hits = {} THEN Undefined
             ELSE links[CHOOSE i \in hits : \A j \in hits : i <= j].href

\* Mutant: the last matching link wins.
MActorUrlOf(doc) ==
    IF doc.links = Missing THEN Undefined
    ELSE LET links == doc.links[1]
             hits  == {i \in 1..Len(links) : IsActorLink(links[i])}
         IN  IF hits = {} THEN Undefined
             ELSE links[CHOOSE i \in hits : \A j \in hits : i >= j].href

ActorUrlOf(doc) ==
    IF doc.links = Missing THEN Undefined
    ELSE LET links == doc.links[1]
             hits  == {i \in 1..Len(links) : IsActorLink(links[i])}
         IN  IF hits = {} THEN Undefined
             ELSE links[CHOOSE i \in hits : \A j \in hits : i <= j].href

\* Mutant: slice(0, limit + 1).
MSlice(s, n) == SubSeq(s, 1, IF n + 1 < Len(s) THEN n + 1 ELSE Len(s))

\* Array.prototype.slice(0, limit), for limit >= 0.
Slice(s, n) == SubSeq(s, 1, IF n < Len(s) THEN n ELSE Len(s))

OutboxUrl == "https://h/users/1/outbox"
FirstUrl  == "https://h/users/1/outbox?page=true"

\* An actor document: id and type are present; outbox, publicKey and icon are
\* optional, a publicKey object may lack its publicKeyPem and an icon its url.
ActorDocs ==
    [outbox    : {OutboxUrl, Undefined},
     publicKey : {"missing", "withPem", "withoutPem"},
     icon      : {"missing", "withUrl", "withoutUrl"}]

Activities    == {"x", "y"}
ActivityLists == SeqsUpTo(Activities, MaxPageLen)
OptLists      == {Missing} \cup {Some(l) : l \in ActivityLists}

\* The outbox collection: a first page link and/or inline orderedItems / items.
OutboxDocs ==
    [first        : {FirstUrl, Undefined},
     orderedItems : {Missing, Some(<<"x", "y">>)},
     items        : {Missing, Some(<<"y">>)}]

\* The first page of the outbox.
PageDocs == [orderedItems : OptLists, items : OptLists]

\* A post of the Mastodon timeline API; account.url may fail to parse as a URL.
Posts     == [visibility : {"public", "unlisted", "private"}, accountUrlValid : BOOLEAN]
PostLists == SeqsUpTo(Posts, MaxPosts)

Instances == {"mastodon.social", "fosstodon.org"}

\* The limit analyzeActorComplete passes to fetchActorOutbox.
CompleteLimit == 3

\* ------------------------------------------------------------------- state

VARIABLES
    entry,      \* the function the run was started with
    items,      \* the handles (or instances) the run iterates over
    idx,        \* index of the item being processed
    pc,         \* the place in the code control is at
    exc,        \* the exception in flight ("none" when there is none)
    requests,   \* every HTTP request issued so far, in order, with its status
    outcomes,   \* how each finished item of a batch loop ended, in order
    discovery,  \* discoverActor's return value: Missing, or Some(result)
    actor,      \* fetchActor's return value: Missing, or Some(document)
    outboxUrl,  \* fetchActorOutbox's first argument
    limit,      \* fetchActorOutbox's second argument
    page,       \* the first page fetchActorOutbox received: Missing, or Some(document)
    shown,      \* the activities fetchActorOutbox displayed, in order
    outboxRet,  \* what fetchActorOutbox returned: Missing (undefined), or Some(list)
    posts,      \* fetchPublicTimeline's return value: Missing, or Some(list)
    outbox,     \* the outbox collection fetchActorOutbox received: Missing, or Some(document)
    log,        \* the console lines that name a URL or report an error, in order
    server      \* what the remote servers answer (free, or fixed for the whole run)

\* The state of examples/05-notification-simulation.js.
VARIABLES
    webhookPayload,  \* simulateVideoUpload's return value: Missing, or Some(payload)
    note,            \* createActivityPubNote's return value: Missing, or Some(note)
    createActivity,  \* createActivityPubActivity's return value: Missing, or Some(activity)
    deliveryData,    \* the request description simulateMastodonDelivery built: Missing, or Some
    timers,          \* the pending setTimeout callbacks
    clock,           \* the time in milliseconds
    console,         \* what the workflow printed, in order
    professorId      \* createActivityPubActivity's second argument: Missing, or Some(id)

workflow == <<webhookPayload, note, createActivity, deliveryData, timers, clock, console,
              professorId>>

\* convertToActivityPubNote (unnamed/part_001) called on its own.
VARIABLES
    postArg,         \* its argument post: Missing, or Some(post)
    activityPubNote  \* its return value: Missing, or Some(note)

conversion == <<postArg, activityPubNote>>

vars == <<entry, items, idx, pc, exc, requests, outcomes, discovery, actor,
          outboxUrl, limit, page, shown, outboxRet, posts, outbox, log, server,
          webhookPayload, note, createActivity, deliveryData, timers, clock, console,
          professorId, postArg, activityPubNote>>

\* No conversion is called on its own.
NoConversion ==
    /\ postArg = Missing
    /\ activityPubNote = Missing

\* The scripts other than the notification simulation never touch its state.
NoWorkflow ==
    /\ webhookPayload = Missing
    /\ note = Missing
    /\ createActivity = Missing
    /\ deliveryData = Missing
    /\ timers = {}
    /\ clock = 0
    /\ console = <<>>
    /\ professorId = Missing

locals == <<discovery, actor, outboxUrl, limit, page, shown, outboxRet, posts, outbox>>

Handle == items[idx]

Url(s) == <<s>>

\* The options every axios.get is given: an Accept header by kind of document,
\* the client identification, and the timeout in milliseconds.
UserAgent == "ActivityPub-Learning-Setup/1.0"
TimeoutMs == 10000

Accept(stage) ==
    CASE stage = "webfinger" -> "application/jrd+json"
      [] stage \in {"actor", "outbox", "firstPage"} ->
             "application/activity+json, application/ld+json"
      [] stage = "timeline" -> "application/json"

\* Mutant: one Accept value is used for every request.
MHeaders(stage) ==
    {<<"Accept", "application/activity+json, application/ld+json">>,
     <<"User-Agent", UserAgent>>}

Headers(stage) == {<<"Accept", Accept(stage)>>, <<"User-Agent", UserAgent>>}

Request(stage, url) ==
    [item |-> idx, stage |-> stage, url |-> url, status |-> "pending",
     method |-> "GET", headers |-> Headers(stage), timeout |-> TimeoutMs]

\* A console line: where it is printed, the URL it names (NoUrl when it names
\* none) and the error message it carries ("none" when it carries none).
NoUrl == <<>>
Line(site, url, message) == [item |-> idx, site |-> site, url |-> url, message |-> message]
Say(lines) == log' = log \o lines

\* axios.get(url, ...): the request goes out.
Issue(stage, url) == requests' = Append(requests, Request(stage, url))

\* The awaited request settles: fulfilled ("ok") or rejected ("failed").
Settle(status) ==
    requests' = [requests EXCEPT ![Len(requests)].status = status]

\* A request that fails (network error, timeout, status outside 2xx) has no reply.
NoReply == <<>>

\* The servers of a run whose replies are not fixed: any reply may come.
FreeServer ==
    [fixed |-> FALSE, webfinger |-> NoReply, actor |-> NoReply, outbox |-> NoReply,
     firstPage |-> NoReply, timeline |-> NoReply]

\* The reply (NoReply, or Some(document)) the server gives a request of a stage:
\* any reply when the servers are free, the fixed one otherwise.
Replies(stage, reply) == server.fixed => server[stage] = reply

\* ---------------------------------------------------------------- call graph

\* Where control continues when function fn returns normally.
ReturnSite(fn) ==
    CASE fn = "discoverActor" ->
            IF entry = "runWebFingerTests" THEN "runWebFingerTests:95"
            ELSE IF entry = "runActorTests" THEN "analyzeActorComplete:188"
            ELSE "done"
      [] fn = "fetchActor" -> "analyzeActorComplete:197"
      [] fn = "fetchActorOutbox" ->
            IF entry = "runActorTests" THEN "analyzeActorComplete:201" ELSE "done"
      [] fn = "analyzeActorComplete" -> "runActorTests:219"
      [] fn = "fetchPublicTimeline" -> "runTimelineAnalysis:129"

\* Mutant: analyzeActorComplete without its try/catch.
MCatchSite(fn) ==
    CASE fn = "discoverActor" ->
            IF entry = "runWebFingerTests" THEN "runWebFingerTests:96" ELSE "uncaught"
      [] fn \in {"fetchActor", "analyzeActor"} -> "uncaught"
      [] fn \in {"fetchPublicTimeline", "analyzePost"} -> "runTimelineAnalysis:144"

\* Where control continues when an exception leaves function fn: the catch
\* clause of the nearest try on the call path, or "uncaught" when there is none.
CatchSite(fn) ==
    CASE fn = "discoverActor" ->
            IF entry = "runWebFingerTests" THEN "runWebFingerTests:96"
            ELSE IF entry = "runActorTests" THEN "analyzeActorComplete:202"
            ELSE "uncaught"
      [] fn \in {"fetchActor", "analyzeActor"} -> "analyzeActorComplete:202"
      [] fn \in {"fetchPublicTimeline", "analyzePost"} -> "runTimelineAnalysis:144"

Throw(error, fn) ==
    /\ exc' = error
    /\ pc' = CatchSite(fn)

FreshLocals ==
    /\ discovery = Missing
    /\ actor = Missing
    /\ outboxUrl = Undefined
    /\ limit = 0
    /\ page = Missing
    /\ shown = <<>>
    /\ outboxRet = Missing
    /\ posts = Missing
    /\ outbox = Missing

ResetLocals ==
    /\ discovery' = Missing
    /\ actor' = Missing
    /\ outboxUrl' = Undefined
    /\ limit' = 0
    /\ page' = Missing
    /\ shown' = <<>>
    /\ outboxRet' = Missing
    /\ posts' = Missing
    /\ outbox' = Missing

\* ------------------------------------------------ 01-webfinger-discovery.js

\* Mutant: a module-level cache answers a handle that was resolved before.
MDiscoverActor ==
    /\ pc = "discoverActor"
    /\ IF InvalidHandle(Handle)
       THEN /\ Throw("InvalidHandle", "discoverActor")
            /\ UNCHANGED <<requests, log, discovery>>
       ELSE IF \E k \in 1..Len(requests) :
                  requests[k].url = WebFingerUrl(Handle) /\ requests[k].status = "ok"
       THEN /\ discovery' = Some([handle |-> Handle, webfingerData |-> server.webfinger[1],
                                  actorUrl |-> ActorUrlOf(server.webfinger[1])])
            /\ pc' = ReturnSite("discoverActor")
            /\ UNCHANGED <<requests, log, exc>>
       ELSE /\ Issue("webfinger", WebFingerUrl(Handle))
            /\ Say(<<Line("discoverActor:37", WebFingerUrl(Handle), "none")>>)
            /\ pc' = "discoverActor:39"
            /\ UNCHANGED <<exc, discovery>>
    /\ UNCHANGED <<workflow, conversion, entry, server, items, idx, outcomes, actor, outboxUrl, limit,
                   page, shown, outboxRet, posts, outbox>>

\* discoverActor up to its await: parse the handle, throw on a bad one (before
\* the try), else build the URL and send the WebFinger request.
DiscoverActor ==
    /\ pc = "discoverActor"
    /\ IF InvalidHandle(Handle)
       THEN /\ Throw("InvalidHandle", "discoverActor")
            /\ UNCHANGED <<requests, log>>
       ELSE /\ Issue("webfinger", WebFingerUrl(Handle))
            /\ Say(<<Line("discoverActor:37", WebFingerUrl(Handle), "none")>>)
            /\ pc' = "discoverActor:39"
            /\ UNCHANGED exc
    /\ UNCHANGED <<workflow, conversion, entry, server, items, idx, outcomes, locals>>

\* The WebFinger response arrives: extract the actor URL and return the result.
WebFingerOk ==
    /\ pc = "discoverActor:39"
    /\ \E doc \in WebFingerDocs :
          /\ Replies("webfinger", Some(doc))
          /\ discovery' = Some([handle |-> Handle, webfingerData |-> doc,
                                actorUrl |-> ActorUrlOf(doc)])
    /\ Settle("ok")
    /\ pc' = ReturnSite("discoverActor")
    /\ UNCHANGED <<workflow, conversion, entry, server, log, items, idx, exc, outcomes, actor, outboxUrl, limit, outbox,
                   page, shown, outboxRet, posts>>

\* The WebFinger request fails: the catch block logs and rethrows.
WebFingerFail ==
    /\ pc = "discoverActor:39"
    /\ Replies("webfinger", NoReply)
    /\ Settle("failed")
    /\ Throw("RequestFailed", "discoverActor")
    /\ Say(<<Line("discoverActor:67", NoUrl, "RequestFailed")>>)
    /\ UNCHANGED <<workflow, conversion, entry, server, items, idx, outcomes, locals>>

\* runWebFingerTests: the loop head and the call of discoverActor.
RunWebFingerTests ==
    /\ entry = "runWebFingerTests"
    /\ pc = "loop"
    /\ pc' = IF idx <= Len(items) THEN "discoverActor" ELSE "done"
    /\ UNCHANGED <<workflow, conversion, entry, server, log, items, idx, exc, requests, outcomes, locals>>

\* runWebFingerTests: discoverActor returned, on to the next account.
RunWebFingerTestsNext ==
    /\ pc = "runWebFingerTests:95"
    /\ outcomes' = Append(outcomes, "discovered")
    /\ idx' = idx + 1
    /\ pc' = "loop"
    /\ ResetLocals
    /\ UNCHANGED <<workflow, conversion, entry, server, log, items, exc, requests>>

\* runWebFingerTests: the catch clause skips the account.
RunWebFingerTestsCatch ==
    /\ pc = "runWebFingerTests:96"
    /\ exc' = "none"
    /\ outcomes' = Append(outcomes, "skipped")
    /\ idx' = idx + 1
    /\ pc' = "loop"
    /\ ResetLocals
    /\ Say(<<Line("runWebFingerTests:97", NoUrl, "none")>>)
    /\ UNCHANGED <<workflow, conversion, entry, server, items, requests>>

\* ----------------------------------------------------------- unnamed/part_000

\* analyzeActor throws a TypeError on a publicKey without publicKeyPem
\* (actor.publicKey.publicKeyPem.substring); an icon without url is printed
\* as undefined.
AnalyzeActorThrows(doc) == doc.publicKey = "withoutPem"

\* runActorTests: the loop head and the call of analyzeActorComplete, which
\* calls discoverActor.
RunActorTests ==
    /\ entry = "runActorTests"
    /\ pc = "loop"
    /\ pc' = IF idx <= Len(items) THEN "discoverActor" ELSE "done"
    /\ UNCHANGED <<workflow, conversion, entry, server, log, items, idx, exc, requests, outcomes, locals>>

\* Mutant: no check of discovery.actorUrl before fetchActor.
MAnalyzeActorCompleteDiscovered ==
    /\ pc = "analyzeActorComplete:188"
    /\ Issue("actor", Url(discovery[1].actorUrl))
    /\ pc' = "fetchActor:21"
    /\ discovery' = Missing
    /\ Say(<<Line("fetchActor:18", Url(discovery[1].actorUrl), "none")>>)
    /\ UNCHANGED <<workflow, conversion, entry, server, items, idx, exc, outcomes, actor, outboxUrl, limit, outbox, page,
                   shown, outboxRet, posts>>

\* analyzeActorComplete after discovery: stop without an actor URL, else call
\* fetchActor, which sends the actor request.
AnalyzeActorCompleteDiscovered ==
    /\ pc = "analyzeActorComplete:188"
    /\ LET actorUrl == discovery[1].actorUrl
       IN  IF actorUrl = Undefined
           THEN /\ outcomes' = Append(outcomes, "noActorUrl")
                /\ Say(<<Line("analyzeActorComplete:189", NoUrl, "none")>>)
                /\ pc' = ReturnSite("analyzeActorComplete")
                /\ UNCHANGED requests
           ELSE /\ Issue("actor", Url(actorUrl))
                /\ Say(<<Line("fetchActor:18", Url(actorUrl), "none")>>)
                /\ pc' = "fetchActor:21"
                /\ UNCHANGED outcomes
    /\ discovery' = Missing    \* not read again
    /\ UNCHANGED <<workflow, conversion, entry, server, items, idx, exc, actor, outboxUrl, limit, outbox, page, shown,
                   outboxRet, posts>>

\* The actor document arrives: fetchActor returns it.
FetchActorOk ==
    /\ pc = "fetchActor:21"
    /\ \E doc \in ActorDocs :
          /\ Replies("actor", Some(doc))
          /\ actor' = Some(doc)
    /\ Settle("ok")
    /\ pc' = ReturnSite("fetchActor")
    /\ UNCHANGED <<workflow, conversion, entry, server, log, items, idx, exc, outcomes, discovery, outboxUrl, limit, outbox,
                   page, shown, outboxRet, posts>>

\* Mutant: fetchActor retries a failed request once before giving up.
MFetchActorFail ==
    /\ pc = "fetchActor:21"
    /\ Replies("actor", NoReply)
    /\ Say(<<Line("fetchActor:33", requests[Len(requests)].url, "RequestFailed")>>)
    /\ IF Cardinality({k \in 1..Len(requests) :
                          requests[k].item = idx /\ requests[k].stage = "actor"}) < 2
       THEN /\ requests' = Append([requests EXCEPT ![Len(requests)].status = "failed"],
                                  Request("actor", requests[Len(requests)].url))
            /\ UNCHANGED <<pc, exc>>
       ELSE /\ Settle("failed")
            /\ Throw("RequestFailed", "fetchActor")
    /\ UNCHANGED <<workflow, conversion, entry, server, items, idx, outcomes, locals>>

\* The actor request fails: fetchActor's catch block logs and rethrows.
FetchActorFail ==
    /\ pc = "fetchActor:21"
    /\ Replies("actor", NoReply)
    /\ Settle("failed")
    /\ Throw("RequestFailed", "fetchActor")
    /\ Say(<<Line("fetchActor:33", requests[Len(requests)].url, "RequestFailed")>>)
    /\ UNCHANGED <<workflow, conversion, entry, server, items, idx, outcomes, locals>>

\* analyzeActorComplete: analyzeActor(actor), then the call of
\* fetchActorOutbox(actor.outbox, 3).
AnalyzeActorStep ==
    /\ pc = "analyzeActorComplete:197"
    /\ IF AnalyzeActorThrows(actor[1])
       THEN /\ Throw("TypeError", "analyzeActor")
            /\ UNCHANGED <<outboxUrl, limit>>
       ELSE /\ outboxUrl' = actor[1].outbox
            /\ limit' = CompleteLimit
            /\ pc' = "fetchActorOutbox"
            /\ UNCHANGED exc
    /\ actor' = Missing    \* not read again
    /\ UNCHANGED <<workflow, conversion, entry, server, log, items, idx, requests, outcomes, discovery,
                   page, shown, outboxRet, posts, outbox>>

\* Mutant: no check of outboxUrl before the request.
MFetchActorOutboxUnguarded ==
    /\ pc = "fetchActorOutbox"
    /\ Issue("outbox", Url(outboxUrl))
    /\ pc' = "fetchActorOutbox:127"
    /\ outboxRet' = Missing
    /\ Say(<<Line("fetchActorOutbox:124", Url(outboxUrl), "none")>>)
    /\ UNCHANGED <<workflow, conversion, entry, server, items, idx, exc, outcomes, discovery, actor,
                   outboxUrl, limit, outbox, page, shown, posts>>

\* Mutant: the first page is requested together with the outbox, not after it.
MFetchActorOutboxEager ==
    /\ pc = "fetchActorOutbox"
    /\ IF outboxUrl = Undefined
       THEN /\ pc' = ReturnSite("fetchActorOutbox")
            /\ UNCHANGED requests
       ELSE /\ requests' = requests \o <<Request("outbox", Url(outboxUrl)),
                                         Request("firstPage", Url(FirstUrl))>>
            /\ pc' = "fetchActorOutbox:143"
    /\ outboxRet' = Missing
    /\ Say(<<Line("fetchActorOutbox:124", Url(outboxUrl), "none")>>)
    /\ UNCHANGED <<workflow, conversion, entry, server, items, idx, exc, outcomes, discovery, actor,
                   outboxUrl, limit, outbox, page, shown, posts>>

\* fetchActorOutbox up to its first await: return at once without an outbox
\* URL, else send the outbox request.
FetchActorOutbox ==
    /\ pc = "fetchActorOutbox"
    /\ IF outboxUrl = Undefined
       THEN /\ pc' = ReturnSite("fetchActorOutbox")
            /\ UNCHANGED <<requests, log>>
       ELSE /\ Issue("outbox", Url(outboxUrl))
            /\ Say(<<Line("fetchActorOutbox:124", Url(outboxUrl), "none")>>)
            /\ pc' = "fetchActorOutbox:127"
    /\ outboxRet' = Missing
    /\ UNCHANGED <<workflow, conversion, entry, server, items, idx, exc, outcomes, discovery, actor,
                   outboxUrl, limit, outbox, page, shown, posts>>

\* Mutant: a collection without a first page link has its inline items displayed.
MOutboxOk ==
    /\ pc = "fetchActorOutbox:127"
    /\ \E doc \in OutboxDocs :
          /\ Replies("outbox", Some(doc))
          /\ outbox' = Some(doc)
          /\ IF doc.first # Undefined
             THEN /\ requests' = Append([requests EXCEPT ![Len(requests)].status = "ok"],
                                        Request("firstPage", Url(doc.first)))
                  /\ Say(<<Line("fetchActorOutbox:139", Url(doc.first), "none")>>)
                  /\ pc' = "fetchActorOutbox:143"
                  /\ UNCHANGED shown
             ELSE /\ Settle("ok")
                  /\ shown' = Slice(IF doc.orderedItems # Missing THEN doc.orderedItems[1]
                                    ELSE IF doc.items # Missing THEN doc.items[1]
                                    ELSE <<>>, limit)
                  /\ pc' = ReturnSite("fetchActorOutbox")
                  /\ UNCHANGED log
    /\ UNCHANGED <<workflow, conversion, entry, server, items, idx, exc, outcomes, discovery, actor,
                   outboxUrl, limit, page, outboxRet, posts>>

\* The outbox collection arrives: follow its first page link when it has one.
OutboxOk ==
    /\ pc = "fetchActorOutbox:127"
    /\ \E doc \in OutboxDocs :
          /\ Replies("outbox", Some(doc))
          /\ outbox' = Some(doc)
          /\ IF doc.first # Undefined
             THEN /\ requests' = Append([requests EXCEPT ![Len(requests)].status = "ok"],
                                        Request("firstPage", Url(doc.first)))
                  /\ Say(<<Line("fetchActorOutbox:139", Url(doc.first), "none")>>)
                  /\ pc' = "fetchActorOutbox:143"
             ELSE /\ Settle("ok")
                  /\ pc' = ReturnSite("fetchActorOutbox")
                  /\ UNCHANGED log
    /\ UNCHANGED <<workflow, conversion, entry, server, items, idx, exc, outcomes, discovery, actor,
                   outboxUrl, limit, page, shown, outboxRet, posts>>

\* Mutant: the outer catch rethrows.
MOutboxFail ==
    /\ pc = "fetchActorOutbox:127"
    /\ Replies("outbox", NoReply)
    /\ Settle("failed")
    /\ exc' = "RequestFailed"
    /\ pc' = IF entry = "runActorTests" THEN "analyzeActorComplete:202" ELSE "uncaught"
    /\ Say(<<Line("fetchActorOutbox:172", NoUrl, "RequestFailed")>>)
    /\ UNCHANGED <<workflow, conversion, entry, server, items, idx, outcomes, locals>>

\* The outbox request fails: the outer catch logs, the function returns.
OutboxFail ==
    /\ pc = "fetchActorOutbox:127"
    /\ Replies("outbox", NoReply)
    /\ Settle("failed")
    /\ pc' = ReturnSite("fetchActorOutbox")
    /\ Say(<<Line("fetchActorOutbox:172", NoUrl, "RequestFailed")>>)
    /\ UNCHANGED <<workflow, conversion, entry, server, items, idx, exc, outcomes, locals>>

\* Mutant: items is preferred to orderedItems.
MActivitiesOf(doc) ==
    IF doc.items # Missing THEN doc.items[1]
    ELSE IF doc.orderedItems # Missing THEN doc.orderedItems[1]
    ELSE <<>>

\* firstPageResponse.data.orderedItems || firstPageResponse.data.items || []
\* (an array, even an empty one, is truthy).
ActivitiesOf(doc) ==
    IF doc.orderedItems # Missing THEN doc.orderedItems[1]
    ELSE IF doc.items # Missing THEN doc.items[1]
    ELSE <<>>

\* activities.slice(0, limit).forEach(...): the activities displayed.
Displayed(doc, n) == Slice(ActivitiesOf(doc), n)

\* The first page arrives: display its first `limit` activities. The outbox
\* collection is not read again (its last use is the URL of this request).
FirstPageOk ==
    /\ pc = "fetchActorOutbox:143"
    /\ \E doc \in PageDocs :
          /\ Replies("firstPage", Some(doc))
          /\ page' = Some(doc)
          /\ shown' = Displayed(doc, limit)
    /\ Settle("ok")
    /\ outbox' = Missing
    /\ pc' = ReturnSite("fetchActorOutbox")
    /\ UNCHANGED <<workflow, conversion, entry, server, log, items, idx, exc, outcomes, discovery, actor,
                   outboxUrl, limit, outboxRet, posts>>

\* The first page request fails: the inner catch logs, the function returns.
FirstPageFail ==
    /\ pc = "fetchActorOutbox:143"
    /\ Replies("firstPage", NoReply)
    /\ Settle("failed")
    /\ pc' = ReturnSite("fetchActorOutbox")
    /\ Say(<<Line("fetchActorOutbox:167", NoUrl, "none")>>)
    /\ outbox' = Missing
    /\ UNCHANGED <<workflow, conversion, entry, server, items, idx, exc, outcomes, discovery, actor,
                   outboxUrl, limit, page, shown, outboxRet, posts>>

\* analyzeActorComplete: fetchActorOutbox returned, the analysis is complete;
\* with the return its locals and those of its callees are gone.
AnalyzeActorCompleteEnd ==
    /\ pc = "analyzeActorComplete:201"
    /\ outcomes' = Append(outcomes, "analysed")
    /\ pc' = ReturnSite("analyzeActorComplete")
    /\ ResetLocals
    /\ UNCHANGED <<workflow, conversion, entry, server, log, items, idx, exc, requests>>

\* analyzeActorComplete: the catch clause reports the failed analysis.
AnalyzeActorCompleteCatch ==
    /\ pc = "analyzeActorComplete:202"
    /\ exc' = "none"
    /\ outcomes' = Append(outcomes, "analysisFailed")
    /\ pc' = ReturnSite("analyzeActorComplete")
    /\ Say(<<Line("analyzeActorComplete:203", NoUrl, exc)>>)
    /\ UNCHANGED <<workflow, conversion, entry, server, items, idx, requests, locals>>

\* runActorTests: analyzeActorComplete returned, on to the next account.
RunActorTestsNext ==
    /\ pc = "runActorTests:219"
    /\ idx' = idx + 1
    /\ pc' = "loop"
    /\ ResetLocals
    /\ UNCHANGED <<workflow, conversion, entry, server, log, items, exc, requests, outcomes>>

\* ----------------------------------------------------------- unnamed/part_001

\* `https://${instance}/api/v1/timelines/public`
TimelineUrl(instance) == <<"https://", instance, "/api/v1/timelines/public">>

\* analyzePost throws a TypeError when new URL(post.account.url) cannot parse.
AnalyzePostThrows(post) == ~post.accountUrlValid

\* Mutant: the timelines of all remaining instances are requested at once.
MRunTimelineAnalysis ==
    /\ entry = "runTimelineAnalysis"
    /\ pc = "loop"
    /\ IF idx <= Len(items)
       THEN /\ requests' = requests \o
                  [k \in 1..(Len(items) - idx + 1) |->
                      [Request("timeline", TimelineUrl(items[idx + k - 1]))
                          EXCEPT !.item = idx + k - 1]]
            /\ pc' = "fetchPublicTimeline:23"
       ELSE /\ pc' = "done"
            /\ UNCHANGED requests
    /\ UNCHANGED <<workflow, conversion, entry, server, log, items, idx, exc, outcomes, locals>>

\* runTimelineAnalysis: the loop head and the call of fetchPublicTimeline,
\* which sends the timeline request.
RunTimelineAnalysis ==
    /\ entry = "runTimelineAnalysis"
    /\ pc = "loop"
    /\ IF idx <= Len(items)
       THEN /\ Issue("timeline", TimelineUrl(items[idx]))
            /\ pc' = "fetchPublicTimeline:23"
       ELSE /\ pc' = "done"
            /\ UNCHANGED requests
    /\ UNCHANGED <<workflow, conversion, entry, server, log, items, idx, exc, outcomes, locals>>

\* The timeline arrives: fetchPublicTimeline returns the posts.
TimelineOk ==
    /\ pc = "fetchPublicTimeline:23"
    /\ \E list \in PostLists :
          /\ Replies("timeline", Some(list))
          /\ posts' = Some(list)
    /\ Settle("ok")
    /\ pc' = ReturnSite("fetchPublicTimeline")
    /\ UNCHANGED <<workflow, conversion, entry, server, log, items, idx, exc, outcomes, discovery, actor, outboxUrl,
                   limit, outbox, page, shown, outboxRet>>

\* The timeline request fails: fetchPublicTimeline's catch logs and rethrows.
TimelineFail ==
    /\ pc = "fetchPublicTimeline:23"
    /\ Replies("timeline", NoReply)
    /\ Settle("failed")
    /\ Throw("RequestFailed", "fetchPublicTimeline")
    /\ Say(<<Line("fetchPublicTimeline:39", NoUrl, "RequestFailed")>>)
    /\ UNCHANGED <<workflow, conversion, entry, server, items, idx, outcomes, locals>>

\* runTimelineAnalysis: analyse every post, then on to the next instance.
RunTimelineAnalysisPosts ==
    /\ pc = "runTimelineAnalysis:129"
    /\ IF \E i \in 1..Len(posts[1]) : AnalyzePostThrows(posts[1][i])
       THEN /\ Throw("TypeError", "analyzePost")
            /\ UNCHANGED <<idx, outcomes, locals>>
       ELSE /\ outcomes' = Append(outcomes, "analysed")
            /\ idx' = idx + 1
            /\ pc' = "loop"
            /\ ResetLocals
            /\ UNCHANGED exc
    /\ UNCHANGED <<workflow, conversion, entry, server, log, items, requests>>

\* runTimelineAnalysis: the catch clause skips the instance.
RunTimelineAnalysisCatch ==
    /\ pc = "runTimelineAnalysis:144"
    /\ exc' = "none"
    /\ outcomes' = Append(outcomes, "skipped")
    /\ idx' = idx + 1
    /\ pc' = "loop"
    /\ ResetLocals
    /\ Say(<<Line("runTimelineAnalysis:145", NoUrl, "none")>>)
    /\ UNCHANGED <<workflow, conversion, entry, server, items, requests>>

\* ------------------------------------------- examples/05-notification-simulation.js

\* The video runCompleteWorkflow uploads. URLs are token sequences, as above.
VideoData ==
    [id          |-> "activitypub-intro-2024",
     title       |-> "Introduction to ActivityPub Protocol",
     description |-> "Learn the basics of decentralized social networking with ActivityPub",
     duration    |-> "15:42",
     url         |-> <<"https://learning-platform.uni.edu/courses/distributed-systems/videos/activitypub-intro">>,
     thumbnail   |-> <<"https://learning-platform.uni.edu/thumbnails/activitypub-intro.jpg">>,
     course      |-> [id |-> "CS-480", name |-> "Distributed Systems"],
     professor   |-> [id |-> "prof-smith", name |-> "Dr. Sarah Smith",
                      mastodonHandle |-> "dr_smith"],
     enrolledStudents |-> <<"alice_cs", "bob_student", "carol_learns">>]

MastodonInstance == "mastodon.social"

PublicCollection == <<"https://www.w3.org/ns/activitystreams#Public">>

\* new Date() rendered with toISOString / toUTCString.
IsoString(t) == <<"iso", t>>
UtcString(t) == <<"utc", t>>

\* simulateVideoUpload's payload for a video uploaded at time t.
WebhookPayloadOf(videoData, t) ==
    [event     |-> "video.uploaded",
     timestamp |-> IsoString(t),
     course    |-> videoData.course,
     professor |-> videoData.professor,
     video     |-> [id |-> videoData.id, title |-> videoData.title,
                    description |-> videoData.description,
                    duration |-> videoData.duration, url |-> videoData.url,
                    thumbnail |-> videoData.thumbnail],
     enrolledStudents |-> videoData.enrolledStudents]

\* createActivityPubNote's note (its content text and hashtags are left out).
NoteOf(payload) ==
    [type         |-> "Note",
     id           |-> <<"https://learning-platform.uni.edu/videos/", payload.video.id,
                        "/activitypub">>,
     published    |-> payload.timestamp,
     attributedTo |-> <<"https://mastodon.social/users/", payload.professor.mastodonHandle>>,
     to           |-> <<PublicCollection>>,
     cc           |-> << <<"https://mastodon.social/users/",
                           payload.professor.mastodonHandle, "/followers">> >>,
     url          |-> payload.video.url,
     attachment   |-> <<[type |-> "Document", mediaType |-> "image/jpeg",
                         url |-> payload.video.thumbnail]>>]

\* Mutant: the activity's actor is taken from the note.
MActivityOf(n, id) ==
    [type      |-> "Create",
     id        |-> n.id \o <<"/activity">>,
     actor     |-> n.attributedTo,
     published |-> n.published,
     to        |-> n.to,
     cc        |-> n.cc,
     object    |-> n]

\* createActivityPubActivity's Create activity.
ActivityOf(n, id) ==
    [type      |-> "Create",
     id        |-> n.id \o <<"/activity">>,
     actor     |-> id,
     published |-> n.published,
     to        |-> n.to,
     cc        |-> n.cc,
     object    |-> n]

ProfessorActorId(videoData) ==
    <<"https://mastodon.social/users/", videoData.professor.mastodonHandle>>

\* url.split('/').pop(): the last path segment (the last token here, the
\* handle holding no '/').
LastSegment(url) == url[Len(url)]

\* The request description simulateMastodonDelivery builds at time t.
DeliveryDataOf(activity, mastodonInstance, t) ==
    [method  |-> "POST",
     url     |-> <<"https://", mastodonInstance, "/users/", LastSegment(activity.actor),
                   "/inbox">>,
     headers |-> [ContentType |-> "application/activity+json",
                  Date        |-> UtcString(t),
                  Host        |-> mastodonInstance,
                  Signature   |-> "keyId=...,headers=...,signature=..."],
     body    |-> activity]

DeliveryDelayMs == 1000
ReactionStepMs  == 500

Students ==
    <<[name |-> "Alice", handle |-> "alice_cs"],
      [name |-> "Bob",   handle |-> "bob_student"],
      [name |-> "Carol", handle |-> "carol_learns"]>>

Reactions == <<"Like", "Announce", "Create">>

\* A printed step of the workflow; who and reaction are "none" but for a
\* student's reaction.
Shown(what) == [what |-> what, who |-> "none", reaction |-> "none"]
Tell(lines) == console' = console \o lines

\* setTimeout(callback, delay): timers run by due time, then in the order set.
Timer(callback, arg, delay, seq) ==
    [callback |-> callback, arg |-> arg, due |-> clock + delay, seq |-> seq]

\* Mutant: the timer set last runs first.
MNextTimer(t) ==
    /\ t \in timers
    /\ \A u \in timers : t.seq >= u.seq

NextTimer(t) ==
    /\ t \in timers
    /\ \A u \in timers : t.due < u.due \/ (t.due = u.due /\ t.seq <= u.seq)

\* runCompleteWorkflow, step 1: simulateVideoUpload.
SimulateVideoUpload ==
    /\ pc = "runCompleteWorkflow"
    /\ webhookPayload' = Some(WebhookPayloadOf(VideoData, clock))
    /\ Tell(<<Shown("upload")>>)
    /\ pc' = "runCompleteWorkflow:229"
    /\ UNCHANGED <<note, createActivity, deliveryData, timers, clock, professorId>>
    /\ UNCHANGED <<conversion, entry, server, items, idx, exc, requests, outcomes, log, locals>>

\* Step 2: createActivityPubNote.
CreateActivityPubNote ==
    /\ pc = "runCompleteWorkflow:229"
    /\ note' = Some(NoteOf(webhookPayload[1]))
    /\ Tell(<<Shown("note")>>)
    /\ pc' = "runCompleteWorkflow:233"
    /\ UNCHANGED <<webhookPayload, createActivity, deliveryData, timers, clock, professorId>>
    /\ UNCHANGED <<conversion, entry, server, items, idx, exc, requests, outcomes, log, locals>>

\* createActivityPubActivity(note, professorId): step 3 of the workflow, which
\* passes the professor's actor id, or a call of the function on its own.
CreateActivityPubActivity ==
    /\ pc \in {"runCompleteWorkflow:233", "createActivityPubActivity"}
    /\ LET id == IF entry = "runCompleteWorkflow"
                 THEN Some(ProfessorActorId(VideoData)) ELSE professorId
       IN  /\ professorId' = id
           /\ createActivity' = Some(ActivityOf(note[1], id[1]))
    /\ Tell(<<Shown("activity")>>)
    /\ pc' = IF entry = "runCompleteWorkflow" THEN "runCompleteWorkflow:236" ELSE "done"
    /\ UNCHANGED <<webhookPayload, note, deliveryData, timers, clock>>
    /\ UNCHANGED <<conversion, entry, server, items, idx, exc, requests, outcomes, log, locals>>

\* Mutant: the delivery is really sent.
MSimulateMastodonDelivery ==
    /\ pc = "runCompleteWorkflow:236"
    /\ deliveryData' = Some(DeliveryDataOf(createActivity[1], MastodonInstance, clock))
    /\ requests' = Append(requests,
          [item |-> idx, stage |-> "inbox", url |-> deliveryData'[1].url,
           status |-> "pending", method |-> deliveryData'[1].method,
           headers |-> {}, timeout |-> TimeoutMs])
    /\ Tell(<<Shown("delivery")>>)
    /\ timers' = timers \cup {Timer("resolve", 0, DeliveryDelayMs, 1)}
    /\ pc' = "idle"
    /\ UNCHANGED <<webhookPayload, note, createActivity, clock, professorId>>
    /\ UNCHANGED <<conversion, entry, server, items, idx, exc, outcomes, log, locals>>

\* Step 4, simulateMastodonDelivery up to its await: the request description
\* is built and printed, and a timer is set; nothing is sent.
SimulateMastodonDelivery ==
    /\ pc = "runCompleteWorkflow:236"
    /\ deliveryData' = Some(DeliveryDataOf(createActivity[1], MastodonInstance, clock))
    /\ Tell(<<Shown("delivery")>>)
    /\ timers' = timers \cup {Timer("resolve", 0, DeliveryDelayMs, 1)}
    /\ pc' = "idle"
    /\ UNCHANGED <<webhookPayload, note, createActivity, clock, professorId>>
    /\ UNCHANGED <<conversion, entry, server, items, idx, exc, requests, outcomes, log, locals>>

\* The delivery timer runs: the awaited promise resolves.
DeliveryDelayElapsed ==
    /\ pc = "idle"
    /\ \E t \in timers :
          /\ NextTimer(t)
          /\ t.callback = "resolve"
          /\ timers' = timers \ {t}
          /\ clock' = t.due
    /\ pc' = "simulateMastodonDelivery:168"
    /\ UNCHANGED <<webhookPayload, note, createActivity, deliveryData, console, professorId>>
    /\ UNCHANGED <<conversion, entry, server, items, idx, exc, requests, outcomes, log, locals>>

\* simulateMastodonDelivery after its await, then step 5 and the summary:
\* simulateStudentReactions sets one timer per student and returns, the
\* summary is printed and runCompleteWorkflow returns.
SimulateStudentReactions ==
    /\ pc = "simulateMastodonDelivery:168"
    /\ Tell(<<Shown("deliveryComplete"), Shown("reactionsScheduled"),
               Shown("summary")>>)
    /\ timers' = timers \cup
          {Timer("react", index, index * ReactionStepMs, index) :
              index \in 1..Len(Students)}
    /\ pc' = "main:298"
    /\ UNCHANGED <<webhookPayload, note, createActivity, deliveryData, clock, professorId>>
    /\ UNCHANGED <<conversion, entry, server, items, idx, exc, requests, outcomes, log, locals>>

\* The then-callback of main: showIntegrationArchitecture.
ShowIntegrationArchitecture ==
    /\ pc = "main:298"
    /\ Tell(<<Shown("architecture")>>)
    /\ pc' = "idle"
    /\ UNCHANGED <<webhookPayload, note, createActivity, deliveryData, timers, clock, professorId>>
    /\ UNCHANGED <<conversion, entry, server, items, idx, exc, requests, outcomes, log, locals>>

\* A student's timer runs: a random reaction is printed, with the reply text
\* when it is a Create.
StudentReacts ==
    /\ pc = "idle"
    /\ \E t \in timers :
          /\ NextTimer(t)
          /\ t.callback = "react"
          /\ timers' = timers \ {t}
          /\ clock' = t.due
          /\ \E r \in 1..Len(Reactions) :
                Tell(<<[what |-> "reaction", who |-> Students[t.arg].name,
                         reaction |-> Reactions[r]]>>
                      \o (IF Reactions[r] = "Create" THEN <<Shown("reply")>> ELSE <<>>))
    /\ pc' = IF timers' = {} THEN "done" ELSE "idle"
    /\ UNCHANGED <<webhookPayload, note, createActivity, deliveryData, professorId>>
    /\ UNCHANGED <<conversion, entry, server, items, idx, exc, requests, outcomes, log, locals>>

\* ------------------------------------ unnamed/part_001: convertToActivityPubNote

\* A post as the Mastodon API returns it, with every field the conversion reads.
MediaAttachments == [type : {"image", "video"}, url : {"https://h/media/1", "https://h/media/2"}]

MastodonPosts ==
    [uri               : {"https://h/users/a/statuses/1"},
     url               : {"https://h/@a/1"},
     created_at        : {"2024-01-01T00:00:00.000Z"},
     account           : {[url |-> "https://h/@a"]},
     content           : {"<p>hello</p>"},
     visibility        : {"public", "unlisted", "private", "direct"},
     replies_count     : {0},
     favourites_count  : {1},
     reblogs_count     : {2},
     media_attachments : SeqsUpTo(MediaAttachments, MaxMedia)]

\* Mutant: every post that is not public is addressed as unlisted.
MActivityPubNoteOf(p) ==
    [type         |-> "Note",
     id           |-> p.uri,
     published    |-> p.created_at,
     attributedTo |-> p.account.url,
     content      |-> p.content,
     to           |-> IF p.visibility = "public" THEN <<PublicCollection>> ELSE <<>>,
     cc           |-> IF p.visibility # "public" THEN <<PublicCollection>> ELSE <<>>,
     url          |-> p.url,
     replies      |-> [type |-> "Collection", totalItems |-> p.replies_count],
     likes        |-> [type |-> "Collection", totalItems |-> p.favourites_count],
     shares       |-> [type |-> "Collection", totalItems |-> p.reblogs_count],
     attachment   |-> [k \in 1..Len(p.media_attachments) |->
                          [type      |-> "Document",
                           mediaType |-> IF p.media_attachments[k].type = "image"
                                         THEN "image/*" ELSE "unknown",
                           url       |-> p.media_attachments[k].url]]]

\* The note convertToActivityPubNote returns.
ActivityPubNoteOf(p) ==
    [type         |-> "Note",
     id           |-> p.uri,
     published    |-> p.created_at,
     attributedTo |-> p.account.url,
     content      |-> p.content,
     to           |-> IF p.visibility = "public" THEN <<PublicCollection>> ELSE <<>>,
     cc           |-> IF p.visibility = "unlisted" THEN <<PublicCollection>> ELSE <<>>,
     url          |-> p.url,
     replies      |-> [type |-> "Collection", totalItems |-> p.replies_count],
     likes        |-> [type |-> "Collection", totalItems |-> p.favourites_count],
     shares       |-> [type |-> "Collection", totalItems |-> p.reblogs_count],
     attachment   |-> [k \in 1..Len(p.media_attachments) |->
                          [type      |-> "Document",
                           mediaType |-> IF p.media_attachments[k].type = "image"
                                         THEN "image/*" ELSE "unknown",
                           url       |-> p.media_attachments[k].url]]]

\* convertToActivityPubNote(post) is called and returns.
ConvertToActivityPubNote ==
    /\ pc = "convertToActivityPubNote"
    /\ activityPubNote' = Some(ActivityPubNoteOf(postArg[1]))
    /\ pc' = "done"
    /\ UNCHANGED <<workflow, postArg, entry, server, log, items, idx, exc, requests,
                   outcomes, locals>>

\* ------------------------------------------------------------ specifications

\* The handles the batch runs are given: one well-formed, one without '@'.
TestHandles == {<<"a", "@", "b">>, <<"a", "b">>}

Batches == {"runWebFingerTests", "runActorTests", "runTimelineAnalysis"}

\* A batch run: one of the three run* functions over a list of items.
Init ==
    /\ entry \in Batches
    /\ items \in IF entry = "runTimelineAnalysis"
                 THEN SeqsUpTo(Instances, MaxItems)
                 ELSE SeqsUpTo(TestHandles, MaxItems)
    /\ idx = 1
    /\ pc = "loop"
    /\ exc = "none"
    /\ requests = <<>>
    /\ outcomes = <<>>
    /\ log = <<>>
    /\ NoWorkflow
    /\ NoConversion
    /\ server = FreeServer
    /\ FreshLocals

Next ==
    \/ RunWebFingerTests
    \/ DiscoverActor
    \/ WebFingerOk
    \/ WebFingerFail
    \/ RunWebFingerTestsNext
    \/ RunWebFingerTestsCatch
    \/ RunActorTests
    \/ AnalyzeActorCompleteDiscovered
    \/ FetchActorOk
    \/ FetchActorFail
    \/ AnalyzeActorStep
    \/ FetchActorOutbox
    \/ OutboxOk
    \/ OutboxFail
    \/ FirstPageOk
    \/ FirstPageFail
    \/ AnalyzeActorCompleteEnd
    \/ AnalyzeActorCompleteCatch
    \/ RunActorTestsNext
    \/ RunTimelineAnalysis
    \/ TimelineOk
    \/ TimelineFail
    \/ RunTimelineAnalysisPosts
    \/ RunTimelineAnalysisCatch

Spec == Init /\ [][Next]_vars

\* A direct call of the exported discoverActor(handle), for every handle.
InitResolve ==
    /\ entry = "discoverActor"
    /\ items \in {<<h>> : h \in Handles}
    /\ idx = 1
    /\ pc = "discoverActor"
    /\ exc = "none"
    /\ requests = <<>>
    /\ outcomes = <<>>
    /\ log = <<>>
    /\ NoWorkflow
    /\ NoConversion
    /\ server = FreeServer
    /\ FreshLocals

NextResolve ==
    \/ DiscoverActor
    \/ WebFingerOk
    \/ WebFingerFail

SpecResolve == InitResolve /\ [][NextResolve]_vars

\* A direct call of the exported fetchActorOutbox(outboxUrl, limit).
InitOutbox ==
    /\ entry = "fetchActorOutbox"
    /\ items = <<>>
    /\ idx = 1
    /\ pc = "fetchActorOutbox"
    /\ exc = "none"
    /\ requests = <<>>
    /\ outcomes = <<>>
    /\ discovery = Missing
    /\ actor = Missing
    /\ outboxUrl \in {OutboxUrl, Undefined}
    /\ limit \in 0..MaxLimit
    /\ page = Missing
    /\ shown = <<>>
    /\ outboxRet = Missing
    /\ posts = Missing
    /\ outbox = Missing
    /\ log = <<>>
    /\ NoWorkflow
    /\ NoConversion
    /\ server = FreeServer

NextOutbox ==
    \/ FetchActorOutbox
    \/ OutboxOk
    \/ OutboxFail
    \/ FirstPageOk
    \/ FirstPageFail

SpecOutbox == InitOutbox /\ [][NextOutbox]_vars

\* Replies that stay the same for a whole run: per stage a failure or one
\* document, among them an actor link of either type, an actor link without
\* href followed by one with, an actor with and without outbox and public key,
\* and a first page with either list.
FixedServers ==
    [fixed     : {TRUE},
     webfinger : {NoReply, Some([links |-> Missing])} \cup
                 {Some([links |-> Some(<<[type |-> t, href |-> "https://h/users/1"]>>)]) :
                     t \in {ActivityJson, LdJson}} \cup
                 {Some([links |-> Some(<<[type |-> ActivityJson, href |-> Undefined],
                                         [type |-> ActivityJson,
                                          href |-> "https://h/users/2"]>>)])},
     actor     : {NoReply} \cup {Some(d) : d \in {a \in ActorDocs : a.icon = "missing"}},
     outbox    : {NoReply} \cup {Some(d) : d \in OutboxDocs},
     firstPage : {NoReply} \cup
                 {Some([orderedItems |-> o, items |-> i]) :
                     o \in {Missing, Some(<<>>), Some(<<"x", "y">>)},
                     i \in {Missing, Some(<<"y">>)}},
     timeline  : {NoReply}]

\* runActorTests over a list that names some handle more than once, against
\* servers whose replies do not change during the run.
InitRepeat ==
    /\ entry = "runActorTests"
    /\ items \in {l \in SeqsUpTo(TestHandles, MaxItems + 1) :
                     \E i, j \in 1..Len(l) : i < j /\ l[i] = l[j]}
    /\ idx = 1
    /\ pc = "loop"
    /\ exc = "none"
    /\ requests = <<>>
    /\ outcomes = <<>>
    /\ log = <<>>
    /\ NoWorkflow
    /\ NoConversion
    /\ server \in FixedServers
    /\ FreshLocals

NextRepeat ==
    \/ RunActorTests
    \/ DiscoverActor
    \/ WebFingerOk
    \/ WebFingerFail
    \/ AnalyzeActorCompleteDiscovered
    \/ FetchActorOk
    \/ FetchActorFail
    \/ AnalyzeActorStep
    \/ FetchActorOutbox
    \/ OutboxOk
    \/ OutboxFail
    \/ FirstPageOk
    \/ FirstPageFail
    \/ AnalyzeActorCompleteEnd
    \/ AnalyzeActorCompleteCatch
    \/ RunActorTestsNext

SpecRepeat == InitRepeat /\ [][NextRepeat]_vars

\* The actor ids and the notes createActivityPubActivity is called with on its
\* own: notes addressed or not, attributed to the given actor or to another.
ActorIds ==
    {<<"https://mastodon.social/users/", "dr_smith">>,
     <<"https://mastodon.social/users/", "dr_jones">>}

Notes ==
    [type         : {"Note"},
     id           : {<<"https://learning-platform.uni.edu/videos/", v, "/activitypub">> :
                        v \in {"v1", "v2"}},
     published    : {IsoString(0), IsoString(1)},
     attributedTo : ActorIds,
     to           : {<<>>, <<PublicCollection>>},
     cc           : {<<>>} \cup {<<a \o <<"/followers">> >> : a \in ActorIds},
     url          : {VideoData.url},
     attachment   : {<<>>}]

\* The notification simulation run as a script, started at any time, or its
\* function createActivityPubActivity called on its own.
InitNotify ==
    /\ \/ /\ entry = "runCompleteWorkflow"
          /\ pc = "runCompleteWorkflow"
          /\ note = Missing
          /\ professorId = Missing
          /\ clock \in 0..MaxStart
       \/ /\ entry = "createActivityPubActivity"
          /\ pc = "createActivityPubActivity"
          /\ note \in {Some(n) : n \in Notes}
          /\ professorId \in {Some(a) : a \in ActorIds}
          /\ clock = 0
    /\ items = <<>>
    /\ idx = 1
    /\ exc = "none"
    /\ requests = <<>>
    /\ outcomes = <<>>
    /\ log = <<>>
    /\ server = FreeServer
    /\ FreshLocals
    /\ webhookPayload = Missing
    /\ createActivity = Missing
    /\ deliveryData = Missing
    /\ timers = {}
    /\ console = <<>>
    /\ NoConversion

NextNotify ==
    \/ SimulateVideoUpload
    \/ CreateActivityPubNote
    \/ CreateActivityPubActivity
    \/ SimulateMastodonDelivery
    \/ DeliveryDelayElapsed
    \/ SimulateStudentReactions
    \/ ShowIntegrationArchitecture
    \/ StudentReacts

SpecNotify == InitNotify /\ [][NextNotify]_vars

\* convertToActivityPubNote called on any post.
InitConvert ==
    /\ entry = "convertToActivityPubNote"
    /\ items = <<>>
    /\ idx = 1
    /\ pc = "convertToActivityPubNote"
    /\ exc = "none"
    /\ requests = <<>>
    /\ outcomes = <<>>
    /\ log = <<>>
    /\ server = FreeServer
    /\ FreshLocals
    /\ NoWorkflow
    /\ postArg \in {Some(p) : p \in MastodonPosts}
    /\ activityPubNote = Missing

NextConvert == ConvertToActivityPubNote

SpecConvert == InitConvert /\ [][NextConvert]_vars

\* ------------------------------------------------------------------ claims

\* The handle as the claims read it, character by character.
AtCount(h) == Cardinality({i \in 1..Len(h) : h[i] = "@"})
FirstAt(h) == CHOOSE k \in 1..Len(h) : h[k] = "@" /\ \A j \in 1..(k - 1) : h[j] # "@"

\* No '@', nothing before the first '@', or nothing after it.
Malformed(h) == AtCount(h) = 0 \/ FirstAt(h) = 1 \/ FirstAt(h) = Len(h)

\* user@domain: one '@' between a non-empty user and a non-empty domain.
WellFormed(h) == AtCount(h) = 1 /\ h[1] # "@" /\ h[Len(h)] # "@"
UserPart(h)   == SubSeq(h, 1, FirstAt(h) - 1)
DomainPart(h) == SubSeq(h, FirstAt(h) + 1, Len(h))

RequestsOf(i, stages) ==
    {k \in 1..Len(requests) : requests[k].item = i /\ requests[k].stage \in stages}

\* C1: a malformed handle (no '@', empty username, empty domain) makes
\* discoverActor fail with the invalid-handle error, and no HTTP request has
\* been issued when it fails.
C1_MalformedHandleFails ==
    (entry = "discoverActor" /\ pc # "discoverActor" /\ Malformed(Handle))
        => (pc = "uncaught" /\ exc = "InvalidHandle" /\ requests = <<>>)

C1_Witness ==
    /\ entry = "discoverActor"
    /\ Handle = <<"a", "@">>
    /\ pc = "uncaught"
    /\ exc = "InvalidHandle"

\* C2: the actorUrl discoverActor returns is the href of the first link, in
\* document order, whose type is application/activity+json, whatever follows
\* it; without such a link actorUrl is undefined and discoverActor still
\* returns normally.
C2_FirstActivityJsonLink ==
    (entry = "discoverActor" /\ discovery # Missing) =>
        LET doc   == discovery[1].webfingerData
            links == IF doc.links = Missing THEN <<>> ELSE doc.links[1]
            url   == discovery[1].actorUrl
        IN  /\ pc = "done"
            /\ exc = "none"
            /\ \/ \E i \in 1..Len(links) :
                     /\ links[i].type = ActivityJson
                     /\ \A j \in 1..(i - 1) : links[j].type # ActivityJson
                     /\ url = links[i].href
               \/ /\ \A i \in 1..Len(links) : links[i].type # ActivityJson
                  /\ url = Undefined

C2_Witness ==
    /\ entry = "discoverActor"
    /\ discovery # Missing
    /\ discovery[1].webfingerData.links =
          Some(<<[type |-> ActivityJson, href |-> "https://h/users/1"],
                 [type |-> ActivityJson, href |-> "https://h/users/2"]>>)
    /\ discovery[1].actorUrl = "https://h/users/1"
    /\ pc = "done"

\* C3: analyzeActorComplete stops at the first stage that does not succeed.
\* For a handle whose discovery threw (bad handle, failed WebFinger request) or
\* gave no actorUrl, no actor, outbox or first-page request is ever issued;
\* for a handle whose actor request failed, no outbox or first-page request.
C3_ChainAborts ==
    entry = "runActorTests" =>
        \A i \in 1..Len(items) :
            LET discoveryThrew ==
                    \/ i <= idx /\ Malformed(items[i])
                    \/ \E k \in RequestsOf(i, {"webfinger"}) : requests[k].status = "failed"
                noActorUrl ==
                    \/ i <= Len(outcomes) /\ outcomes[i] = "noActorUrl"
                    \/ \E k \in RequestsOf(i, {"actor"}) : requests[k].url = Url(Undefined)
                actorThrew ==
                    \E k \in RequestsOf(i, {"actor"}) : requests[k].status = "failed"
            IN  /\ (discoveryThrew \/ noActorUrl)
                      => RequestsOf(i, {"actor", "outbox", "firstPage"}) = {}
                /\ actorThrew => RequestsOf(i, {"outbox", "firstPage"}) = {}

C3_Witness ==
    /\ entry = "runActorTests"
    /\ pc = "done"
    /\ Len(outcomes) = 2
    /\ outcomes[1] = "noActorUrl"
    /\ outcomes[2] = "analysisFailed"
    /\ \E k \in RequestsOf(2, {"actor"}) : requests[k].status = "failed"

\* C4: a failure while one item of a batch loop is processed never keeps the
\* loop from the later items: no exception leaves the loop (so none leaves
\* analyzeActorComplete), the run never stops before its end, and at the end
\* every item has been processed.
C4_BatchIsolation ==
    entry \in Batches =>
        /\ pc # "uncaught"
        /\ pc # "done" => ENABLED Next
        /\ pc = "done" => Len(outcomes) = Len(items)
        /\ Len(outcomes) \in {idx - 1, idx}

C4_Witness ==
    /\ entry = "runActorTests"
    /\ pc = "done"
    /\ Len(items) = 2
    /\ outcomes = <<"analysisFailed", "analysed">>

\* C5: a failed outbox request or a failed first-page request leaves
\* fetchActorOutbox returning normally with no activity displayed, and the
\* enclosing analyzeActorComplete ends as analysed, not as a failed analysis.
C5_OutboxFailureNonFatal ==
    entry = "runActorTests" =>
        \A k \in 1..Len(requests) :
            (requests[k].stage \in {"outbox", "firstPage"} /\ requests[k].status = "failed")
                => LET i == requests[k].item
                   IN  /\ i <= Len(outcomes) => outcomes[i] = "analysed"
                       /\ i = idx =>
                             /\ exc = "none"
                             /\ shown = <<>>
                             /\ pc \in {"analyzeActorComplete:201", "runActorTests:219"}

C5_Witness ==
    /\ entry = "runActorTests"
    /\ pc = "done"
    /\ outcomes = <<"analysed", "analysed">>
    /\ \E k \in RequestsOf(1, {"outbox"}) : requests[k].status = "failed"
    /\ \E k \in RequestsOf(2, {"firstPage"}) : requests[k].status = "failed"

\* C6: within one analyzeActorComplete run every request is issued only after
\* the request of the stage before it, for the same handle, has succeeded:
\* WebFinger, then actor, then outbox, then first page.
StageBefore(stage) ==
    CASE stage = "actor" -> "webfinger"
      [] stage = "outbox" -> "actor"
      [] stage = "firstPage" -> "outbox"

C6_StageOrder ==
    entry = "runActorTests" =>
        \A k \in 1..Len(requests) :
            requests[k].stage \in {"actor", "outbox", "firstPage"} =>
                /\ k > 1
                /\ requests[k - 1].item = requests[k].item
                /\ requests[k - 1].stage = StageBefore(requests[k].stage)
                /\ requests[k - 1].status = "ok"

C6_Witness ==
    /\ entry = "runActorTests"
    /\ Len(requests) = 4
    /\ \A k \in 1..4 : requests[k].item = 1
    /\ requests[4].stage = "firstPage"
    /\ requests[4].status = "pending"

HeldItems(doc) ==
    IF doc.orderedItems # Missing THEN doc.orderedItems[1]
    ELSE IF doc.items # Missing THEN doc.items[1]
    ELSE <<>>

\* C8: for a first page holding n items and a limit L >= 0, the activities
\* fetchActorOutbox displays are exactly the first min(L, n) items of the page
\* in the page's order: L of them when n > L, none reordered, repeated or
\* skipped.
C8_Truncation ==
    (entry = "fetchActorOutbox" /\ page # Missing) =>
        LET held == HeldItems(page[1])
            n    == Len(held)
        IN  /\ Len(shown) = (IF limit < n THEN limit ELSE n)
            /\ n > limit => Len(shown) = limit
            /\ \A i \in 1..Len(shown) : shown[i] = held[i]

C8_Witness ==
    /\ entry = "fetchActorOutbox"
    /\ page # Missing
    /\ page[1].orderedItems = Some(<<"x", "y", "x">>)
    /\ limit = 2
    /\ shown = <<"x", "y">>
    /\ pc = "done"

\* C9: for a handle user@domain, discoverActor issues exactly one HTTP GET, to
\* https://<domain>/.well-known/webfinger?resource=acct:<user>@<domain>.
C9_OneWebFingerGet ==
    (entry = "discoverActor" /\ pc # "discoverActor" /\ WellFormed(Handle)) =>
        /\ Len(requests) = 1
        /\ requests[1].stage = "webfinger"
        /\ requests[1].url =
              <<"https://">> \o DomainPart(Handle)
                  \o <<"/.well-known/webfinger?resource=acct:">>
                  \o UserPart(Handle) \o <<"@">> \o DomainPart(Handle)

C9_Witness ==
    /\ entry = "discoverActor"
    /\ Handle = <<"a", "b", "@", "b">>
    /\ pc = "done"
    /\ Len(requests) = 1
    /\ requests[1].url = <<"https://", "b", "/.well-known/webfinger?resource=acct:",
                           "a", "b", "@", "b">>

\* C10: a handle with two or more '@' (such as a@b@c) makes discoverActor fail
\* with the invalid-handle error, and no network request is issued.
C10_ExactlyOneAt ==
    (entry = "discoverActor" /\ pc # "discoverActor" /\ AtCount(Handle) >= 2)
        => (pc = "uncaught" /\ exc = "InvalidHandle" /\ requests = <<>>)

\* C11 as stated: the actor link is the first link whose type is
\* application/activity+json or application/ld+json; a document whose only
\* actor link has type application/ld+json yields that link's href as actorUrl.
C11_FirstActivityOrLdJsonLink ==
    (entry = "discoverActor" /\ discovery # Missing) =>
        LET doc   == discovery[1].webfingerData
            links == IF doc.links = Missing THEN <<>> ELSE doc.links[1]
            actorTypes == {ActivityJson, LdJson}
        IN  \A i \in 1..Len(links) :
                (links[i].type \in actorTypes
                    /\ \A j \in 1..(i - 1) : links[j].type \notin actorTypes)
                => discovery[1].actorUrl = links[i].href

\* C11 as amended: only application/activity+json marks the actor link; a
\* document whose only actor-like links have type application/ld+json yields
\* no actorUrl (undefined), whatever their href.
C11_LdJsonLinkIgnored ==
    (entry = "discoverActor" /\ discovery # Missing) =>
        LET doc   == discovery[1].webfingerData
            links == IF doc.links = Missing THEN <<>> ELSE doc.links[1]
        IN  (/\ \E i \in 1..Len(links) : links[i].type = LdJson
             /\ \A i \in 1..Len(links) : links[i].type # ActivityJson)
            => discovery[1].actorUrl = Undefined

C11_Witness ==
    /\ entry = "discoverActor"
    /\ discovery # Missing
    /\ discovery[1].webfingerData.links =
          Some(<<[type |-> LdJson, href |-> "https://h/users/1"]>>)
    /\ discovery[1].actorUrl = Undefined
    /\ pc = "done"

\* C12: no two requests are ever outstanding together, and every request of
\* one item of a batch has succeeded or failed before the first request of the
\* next item is issued.
C12_NoConcurrentRequests ==
    entry \in Batches =>
        /\ Cardinality({k \in 1..Len(requests) : requests[k].status = "pending"}) <= 1
        /\ \A k \in 1..Len(requests) :
              /\ requests[k].item <= idx
              /\ \A j \in 1..(k - 1) :
                    /\ requests[j].item <= requests[k].item
                    /\ requests[j].status # "pending"

C12_Witness ==
    /\ entry = "runTimelineAnalysis"
    /\ Len(requests) = 2
    /\ requests[1].item = 1
    /\ requests[1].status = "failed"
    /\ requests[2].item = 2
    /\ requests[2].status = "pending"

LinesOf(i) == {l \in 1..Len(log) : log[l].item = i}

\* C13: every failure of a stage (invalid handle, WebFinger, actor, outbox or
\* first-page request) is caught and logged with its context: once it has been
\* handled, the console output for that item names the URL attempted and
\* carries the error's message.
C13_FailuresLoggedWithContext ==
    /\ entry \in Batches =>
          \A k \in 1..Len(requests) :
              (requests[k].status = "failed"
                  /\ requests[k].stage \in {"webfinger", "actor", "outbox", "firstPage"})
              => /\ \E l \in LinesOf(requests[k].item) : log[l].url = requests[k].url
                 /\ \E l \in LinesOf(requests[k].item) : log[l].message = "RequestFailed"
    /\ entry \in {"runWebFingerTests", "runActorTests"} =>
          \A i \in 1..Len(outcomes) :
              Malformed(items[i])
                  => \E l \in LinesOf(i) : log[l].message = "InvalidHandle"

\* C14: whatever optional fields (publicKey.publicKeyPem, icon.url and the
\* outbox link included) a fetched actor document lacks, analyzeActor raises no
\* error and analyzeActorComplete goes on to the outbox stage.
C14_OptionalActorFieldsTolerated ==
    entry = "runActorTests" =>
        /\ pc = "analyzeActorComplete:202" => exc # "TypeError"
        /\ \A i \in 1..Len(outcomes) :
              (\E k \in RequestsOf(i, {"actor"}) : requests[k].status = "ok")
                  => outcomes[i] = "analysed"

\* C15: the activities of the first page are taken from orderedItems whenever
\* the page has that field (even an empty one), from items only when
\* orderedItems is missing, and are none when both are missing; the two lists
\* are never merged.
C15_OrderedItemsPreferred ==
    (entry = "fetchActorOutbox" /\ page # Missing) =>
        LET p == page[1]
            TakenFrom(list) ==
                /\ Len(shown) <= Len(list)
                /\ \A i \in 1..Len(shown) : shown[i] = list[i]
                /\ limit >= Len(list) => shown = list
        IN  IF p.orderedItems # Missing THEN TakenFrom(p.orderedItems[1])
            ELSE IF p.items # Missing THEN TakenFrom(p.items[1])
            ELSE shown = <<>>

C15_Witness ==
    /\ entry = "fetchActorOutbox"
    /\ page # Missing
    /\ page[1].orderedItems = Some(<<"x">>)
    /\ page[1].items = Some(<<"y", "y">>)
    /\ limit = 3
    /\ shown = <<"x">>

\* C16: no stage retries. Within one analyzeActorComplete run each stage
\* (WebFinger, actor, outbox, first page) issues at most one GET, whether it
\* succeeds or fails, so the run issues at most four requests.
C16_NoRetry ==
    entry = "runActorTests" =>
        \A i \in 1..Len(items) :
            /\ \A stage \in {"webfinger", "actor", "outbox", "firstPage"} :
                  Cardinality(RequestsOf(i, {stage})) <= 1
            /\ Cardinality({k \in 1..Len(requests) : requests[k].item = i}) <= 4

C16_Witness ==
    /\ entry = "runActorTests"
    /\ pc = "done"
    /\ Len(items) = 1
    /\ Len(requests) = 4
    /\ requests[2].status = "ok"
    /\ requests[4].status = "failed"

\* What one resolution did, without the position of its handle in the list:
\* its requests and its console lines, in order.
RequestTrace(i) ==
    LET own == SelectSeq(requests, LAMBDA r : r.item = i)
    IN  [k \in 1..Len(own) |->
            [stage |-> own[k].stage, url |-> own[k].url, status |-> own[k].status]]

LineTrace(i) ==
    LET own == SelectSeq(log, LAMBDA l : l.item = i)
    IN  [k \in 1..Len(own) |->
            [site |-> own[k].site, url |-> own[k].url, message |-> own[k].message]]

\* C17: resolutions share no state. Against unchanged server replies, two
\* resolutions of the same handle in one run issue the same requests, print
\* the same lines and end the same way, whatever was resolved between them and
\* however it ended; and what a resolution returns and displays is decided by
\* the replies alone.
C17_NoSharedState ==
    entry = "runActorTests" /\ server.fixed =>
        /\ \A i, j \in 1..Len(outcomes) :
              (i < j /\ items[i] = items[j]) =>
                  /\ outcomes[i] = outcomes[j]
                  /\ RequestTrace(i) = RequestTrace(j)
                  /\ LineTrace(i) = LineTrace(j)
        /\ discovery # Missing =>
              /\ discovery[1].handle = items[idx]
              /\ discovery[1].webfingerData = server.webfinger[1]
        /\ page # Missing =>
              LET held == HeldItems(server.firstPage[1])
              IN  /\ Len(shown) = (IF CompleteLimit < Len(held) THEN CompleteLimit ELSE Len(held))
                  /\ \A k \in 1..Len(shown) : shown[k] = held[k]

C17_Witness ==
    /\ entry = "runActorTests"
    /\ server.fixed
    /\ pc = "done"
    /\ Len(items) = 3
    /\ items[1] = items[3]
    /\ items[2] # items[1]
    /\ outcomes = <<"analysed", "analysisFailed", "analysed">>
    /\ Len(RequestTrace(3)) = 4

HeaderNames(r) == {h[1] : h \in r.headers}
HeaderValues(r, name) == {h[2] : h \in {g \in r.headers : g[1] = name}}

\* C18: every request of the discovery, actor, outbox and timeline scripts is
\* a GET that carries User-Agent ActivityPub-Learning-Setup/1.0 and a timeout
\* of 10 seconds, and no Authorization or Signature header (its only headers
\* are Accept and User-Agent); the WebFinger request asks for
\* application/jrd+json, and the actor, outbox and first-page requests ask for
\* application/activity+json, application/ld+json.
C18_RequestOptions ==
    \A k \in 1..Len(requests) :
        LET r == requests[k]
        IN  /\ r.method = "GET"
            /\ HeaderValues(r, "User-Agent") = {"ActivityPub-Learning-Setup/1.0"}
            /\ r.timeout = 10 * 1000
            /\ HeaderNames(r) \cap {"Authorization", "Signature", "Cookie"} = {}
            /\ HeaderNames(r) = {"Accept", "User-Agent"}
            /\ r.stage = "webfinger" =>
                  HeaderValues(r, "Accept") = {"application/jrd+json"}
            /\ r.stage \in {"actor", "outbox", "firstPage"} =>
                  HeaderValues(r, "Accept") =
                      {"application/activity+json, application/ld+json"}

C18_Witness ==
    /\ pc = "done"
    /\ Len(requests) = 4
    /\ requests[1].stage = "webfinger"
    /\ requests[2].stage = "actor"
    /\ requests[3].stage = "outbox"
    /\ requests[4].stage = "firstPage"

\* C20: when the outbox collection that arrived has no first page link,
\* fetchActorOutbox has issued exactly one GET, the one for the outbox, it has
\* returned, and it displays no activity, also when the collection carries
\* inline orderedItems or items: these are never read.
C20_InlineItemsIgnored ==
    (entry = "fetchActorOutbox" /\ outbox # Missing /\ outbox[1].first = Undefined) =>
        /\ Len(requests) = 1
        /\ requests[1].stage = "outbox"
        /\ requests[1].status = "ok"
        /\ page = Missing
        /\ shown = <<>>
        /\ pc = "done"
        /\ exc = "none"

C20_Witness ==
    /\ entry = "fetchActorOutbox"
    /\ pc = "done"
    /\ limit > 0
    /\ outbox # Missing
    /\ outbox[1].first = Undefined
    /\ outbox[1].orderedItems = Some(<<"x", "y">>)
    /\ outbox[1].items = Some(<<"y">>)
    /\ Len(requests) = 1

\* C19: the notification simulation sends nothing. At every point of
\* runCompleteWorkflow (upload, note, Create activity, simulated delivery,
\* reactions) no HTTP request has been issued; the delivery step has only built
\* a description of a POST to the professor's inbox and printed it.
C19_NoRealDelivery ==
    entry = "runCompleteWorkflow" =>
        /\ requests = <<>>
        /\ deliveryData # Missing =>
              /\ deliveryData[1].method = "POST"
              /\ deliveryData[1].url =
                    <<"https://", "mastodon.social", "/users/", "dr_smith", "/inbox">>
              /\ deliveryData[1].body = createActivity[1]
              /\ \E k \in 1..Len(console) : console[k].what = "delivery"

C19_Witness ==
    /\ entry = "runCompleteWorkflow"
    /\ pc = "done"
    /\ deliveryData # Missing
    /\ timers = {}
    /\ Cardinality({k \in 1..Len(console) : console[k].what = "reaction"}) = 3
    /\ requests = <<>>

\* The first link of type application/activity+json of a WebFinger document
\* (0 when it has none).
FirstActivityJsonLink(doc) ==
    IF doc.links = Missing THEN 0
    ELSE LET links == doc.links[1]
             typed == {i \in 1..Len(links) : links[i].type = "application/activity+json"}
         IN  IF typed = {} THEN 0 ELSE CHOOSE i \in typed : \A j \in typed : i <= j

\* C21: the link is selected before its href is read. When the first link of
\* type application/activity+json of the WebFinger reply has no href, the
\* discovery carries no actorUrl, also when a later link of that type has an
\* href, and analyzeActorComplete stops there: it ends every well-formed handle
\* as "no actor URL" and no actor, outbox or first-page request is issued.
C21_LinkSelectedBeforeHref ==
    (entry = "runActorTests" /\ server.fixed /\ server.webfinger # NoReply) =>
        LET doc   == server.webfinger[1]
            first == FirstActivityJsonLink(doc)
        IN  (first > 0 /\ doc.links[1][first].href = "undefined") =>
                /\ discovery # Missing => discovery[1].actorUrl = "undefined"
                /\ \A k \in 1..Len(requests) : requests[k].stage = "webfinger"
                /\ \A i \in 1..Len(outcomes) :
                      WellFormed(items[i]) => outcomes[i] = "noActorUrl"

C21_Witness ==
    /\ entry = "runActorTests"
    /\ server.fixed
    /\ server.webfinger # NoReply
    /\ server.webfinger[1].links # Missing
    /\ Len(server.webfinger[1].links[1]) = 2
    /\ server.webfinger[1].links[1][1].href = "undefined"
    /\ server.webfinger[1].links[1][2].type = "application/activity+json"
    /\ server.webfinger[1].links[1][2].href = "https://h/users/2"
    /\ pc = "done"
    /\ \E i \in 1..Len(outcomes) : outcomes[i] = "noActorUrl"
    /\ \E k \in 1..Len(requests) : requests[k].status = "ok"

\* The steps the workflow printed, in order, without the students' reactions
\* and replies; and the reactions alone.
StepsPrinted ==
    LET steps == SelectSeq(console, LAMBDA e : e.what \notin {"reaction", "reply"})
    IN  [k \in 1..Len(steps) |-> steps[k].what]

ReactionsPrinted == SelectSeq(console, LAMBDA e : e.what = "reaction")

IsPrefix(s, t) == Len(s) <= Len(t) /\ \A k \in 1..Len(s) : s[k] = t[k]

\* C22: the notification workflow runs upload, note, Create activity, delivery
\* in that order; the reactions are scheduled only after the simulated
\* delivery has completed; no reaction is printed before runCompleteWorkflow
\* has returned and the summary and the integration architecture are printed;
\* the reactions are then printed once each in the order Alice, Bob, Carol,
\* each a Like, an Announce or a Create.
C22_WorkflowOrder ==
    entry = "runCompleteWorkflow" =>
        /\ IsPrefix(StepsPrinted,
                    <<"upload", "note", "activity", "delivery", "deliveryComplete",
                      "reactionsScheduled", "summary", "architecture">>)
        /\ \A t \in timers :
              t.callback = "react" =>
                  \E k \in 1..Len(console) : console[k].what = "deliveryComplete"
        /\ IsPrefix([k \in 1..Len(ReactionsPrinted) |-> ReactionsPrinted[k].who],
                    <<"Alice", "Bob", "Carol">>)
        /\ \A k \in 1..Len(console) :
              console[k].what = "reaction" =>
                  /\ console[k].reaction \in {"Like", "Announce", "Create"}
                  /\ \E a, b \in 1..(k - 1) :
                        console[a].what = "summary" /\ console[b].what = "architecture"
        /\ pc = "done" => Len(ReactionsPrinted) = 3

C22_Witness ==
    /\ entry = "runCompleteWorkflow"
    /\ pc = "done"
    /\ Len(StepsPrinted) = 8
    /\ Len(ReactionsPrinted) = 3
    /\ ReactionsPrinted[1] = [what |-> "reaction", who |-> "Alice", reaction |-> "Create"]
    /\ ReactionsPrinted[2] = [what |-> "reaction", who |-> "Bob", reaction |-> "Like"]
    /\ ReactionsPrinted[3] = [what |-> "reaction", who |-> "Carol", reaction |-> "Announce"]

\* The members of a list.
Members(list) == {list[k] : k \in 1..Len(list)}

\* C23: the note convertToActivityPubNote returns for a post has the Public
\* collection in `to` exactly when the post's visibility is public and in `cc`
\* exactly when it is unlisted, never in both; for any other visibility `to`
\* and `cc` are both empty; and its attachment list has the length and the
\* order of the post's media_attachments.
C23_NoteAddressing ==
    (entry = "convertToActivityPubNote" /\ activityPubNote # Missing) =>
        LET n      == activityPubNote[1]
            p      == postArg[1]
            public == <<"https://www.w3.org/ns/activitystreams#Public">>
        IN  /\ public \in Members(n.to) <=> p.visibility = "public"
            /\ public \in Members(n.cc) <=> p.visibility = "unlisted"
            /\ ~(public \in Members(n.to) /\ public \in Members(n.cc))
            /\ p.visibility \notin {"public", "unlisted"} => n.to = <<>> /\ n.cc = <<>>
            /\ Len(n.attachment) = Len(p.media_attachments)
            /\ \A k \in 1..Len(n.attachment) :
                  n.attachment[k].url = p.media_attachments[k].url

C23_Witness ==
    /\ entry = "convertToActivityPubNote"
    /\ activityPubNote # Missing
    /\ postArg[1].visibility = "private"
    /\ Len(postArg[1].media_attachments) = 2
    /\ postArg[1].media_attachments[1].url # postArg[1].media_attachments[2].url
    /\ activityPubNote[1].to = <<>>
    /\ Len(activityPubNote[1].attachment) = 2

\* C24: createActivityPubActivity wraps a note without altering it. For every
\* note and actor id the Create activity has the note's to, cc and published,
\* the note itself as its object, the given id as its actor and the note's id
\* followed by /activity as its id; in runCompleteWorkflow its actor is the
\* note's attributedTo.
C24_ActivityWrapsNote ==
    (entry \in {"runCompleteWorkflow", "createActivityPubActivity"}
         /\ createActivity # Missing) =>
        LET a == createActivity[1]
            n == note[1]
        IN  /\ a.type = "Create"
            /\ a.to = n.to
            /\ a.cc = n.cc
            /\ a.published = n.published
            /\ a.object = n
            /\ a.actor = professorId[1]
            /\ Len(a.id) = Len(n.id) + 1
            /\ SubSeq(a.id, 1, Len(n.id)) = n.id
            /\ a.id[Len(a.id)] = "/activity"
            /\ entry = "runCompleteWorkflow" =>
                  /\ a.actor = n.attributedTo
                  /\ n = NoteOf(webhookPayload[1])
            /\ entry = "createActivityPubActivity" => n \in Notes

C24_Witness ==
    /\ entry = "createActivityPubActivity"
    /\ pc = "done"
    /\ createActivity # Missing
    /\ professorId[1] # note[1].attributedTo
    /\ note[1].to = <<>>
    /\ note[1].cc # <<>>
    /\ createActivity[1].actor = professorId[1]

====
